---- MODULE Spec2Model ----
(***************************************************************************)
(* Model of the RAG ingestion and similarity-search pipeline of            *)
(* Squad_65_UnivBot: the upload route (text cleaning, chunk filtering,     *)
(* embedding truncation/normalisation, Document.create) and the vector     *)
(* search utilities (cosineSimilarity, searchSimilarDocuments,             *)
(* deleteDocument).                                                        *)
(*                                                                         *)
(* Numbers.  A JavaScript number is modelled as a record: a finite value   *)
(* in tenths ([nan |-> FALSE, v |-> 6] is 0.6) or NaN.  Arithmetic is      *)
(* exact (real) arithmetic on the finite values; rounding of IEEE doubles  *)
(* is not modelled.  A cosine similarity is kept as the pair (dot, nn)     *)
(* standing for dot / sqrt(nn), so that no square root has to be taken.    *)
(***************************************************************************)
EXTENDS Integers, Sequences, FiniteSets, TLC

\* ------------------------------------------------------------------ bounds
\* number of Document.create calls explored
MaxUploads == 2
\* longest vector handed to cosineSimilarity on its own
MaxVecLen == 2
\* most pieces the text splitter hands to the filter on its own
MaxChunks == 3
\* number of signIn callbacks that run, interleaved
MaxSignIns == 2
\* most setTimeout callbacks of the settings dialog pending at a time
MaxTimers == 2

\* ----------------------------------------------------------------- numbers
Num(n) == [nan |-> FALSE, v |-> n]
NaN == [nan |-> TRUE, v |-> 0]
Vec(s) == [i \in DOMAIN s |-> Num(s[i])]

\* a * b and a + b of JavaScript numbers
NMul(a, b) == IF a.nan \/ b.nan THEN NaN ELSE Num(a.v * b.v)
NAdd(a, b) == IF a.nan \/ b.nan THEN NaN ELSE Num(a.v + b.v)

RECURSIVE SumProd(_, _, _)
\* sum over i < n of a[i] * b[i] (the accumulation of the for loop)
SumProd(a, b, n) ==
  IF n = 0 THEN Num(0)
  ELSE NAdd(SumProd(a, b, n - 1), NMul(a[n], b[n]))

\* A similarity value: dot / sqrt(nn) with nn > 0, or NaN.
Sim(dot, nn) == [nan |-> FALSE, dot |-> dot, nn |-> nn]
SimNaN == [nan |-> TRUE, dot |-> 0, nn |-> 1]
SimZero == Sim(0, 1)
\* the similarity value of a plain number given in tenths
SimOfTenths(t) == Sim(t, 100)

\* a >= b on similarity values (false when either is NaN, as in IEEE 754)
SimGeq(a, b) ==
  IF a.nan \/ b.nan THEN FALSE
  ELSE LET x2 == a.dot * a.dot * b.nn
           y2 == b.dot * b.dot * a.nn
       IN  IF a.dot >= 0 /\ b.dot >= 0 THEN x2 >= y2
           ELSE IF a.dot >= 0 THEN TRUE
           ELSE IF b.dot >= 0 THEN FALSE
           ELSE x2 <= y2

SimEq(a, b) == SimGeq(a, b) /\ SimGeq(b, a)
SimGt(a, b) == SimGeq(a, b) /\ ~SimGeq(b, a)

\* ------------------------------------------------------- cosineSimilarity
\* Result of cosineSimilarity: [err |-> TRUE] when it throws, else the value.
CosThrow == [err |-> TRUE, val |-> SimNaN]
CosVal(s) == [err |-> FALSE, val |-> s]

\* mutant: the zero-norm guard is missing, 0 / 0 is NaN
cosineSimilarityNoGuard(vecA, vecB) ==
  IF Len(vecA) # Len(vecB) THEN CosThrow
  ELSE LET dotProduct == SumProd(vecA, vecB, Len(vecA))
           normA2 == SumProd(vecA, vecA, Len(vecA))
           normB2 == SumProd(vecB, vecB, Len(vecB))
       IN  IF dotProduct.nan \/ normA2.nan \/ normB2.nan
                \/ normA2.v = 0 \/ normB2.v = 0
             THEN CosVal(SimNaN)
           ELSE CosVal(Sim(dotProduct.v, normA2.v * normB2.v))

\* a variant that divides by the norm of vecA only
cosineSimilarityOneNorm(vecA, vecB) ==
  IF Len(vecA) # Len(vecB) THEN CosThrow
  ELSE LET dotProduct == SumProd(vecA, vecB, Len(vecA))
           normA2 == SumProd(vecA, vecA, Len(vecA))
           normB2 == SumProd(vecB, vecB, Len(vecB))
       IN  IF (~normA2.nan /\ normA2.v = 0) \/ (~normB2.nan /\ normB2.v = 0)
             THEN CosVal(SimZero)
           ELSE IF dotProduct.nan \/ normA2.nan \/ normB2.nan
             THEN CosVal(SimNaN)
           ELSE CosVal(Sim(dotProduct.v, normA2.v))

cosineSimilarity(vecA, vecB) ==
  IF Len(vecA) # Len(vecB) THEN CosThrow
  ELSE LET dotProduct == SumProd(vecA, vecB, Len(vecA))
           normA2 == SumProd(vecA, vecA, Len(vecA))
           normB2 == SumProd(vecB, vecB, Len(vecB))
       IN  \* Math.sqrt(x) === 0 exactly when x is 0; NaN === 0 is false
           IF (~normA2.nan /\ normA2.v = 0) \/ (~normB2.nan /\ normB2.v = 0)
             THEN CosVal(SimZero)
           ELSE IF dotProduct.nan \/ normA2.nan \/ normB2.nan
             THEN CosVal(SimNaN)
           ELSE CosVal(Sim(dotProduct.v, normA2.v * normB2.v))

\* ------------------------------------------------------------ the stores
Emails == {"alice", "bob", "carol"}
NoSession == "none"
Sessions == Emails \cup {NoSession}

\* Number of leading components of a raw embedding that are kept (768 in
\* the route, scaled down here so that truncation happens on short vectors).
EmbedDim == 2

VARIABLES
  documents,  \* the Document collection, in insertion (retrieval) order
  nextId,     \* source of fresh _id values
  users,      \* the User collection, in insertion order
  up,         \* the upload request in flight (position and locals)
  out,        \* the response of the step just taken (NoOut: none)
  cos,        \* a call of cosineSimilarity on its own: arguments and result
  deleted,    \* history: the ids for which deleteDocument has returned true
  signin,     \* the signIn callbacks in flight (position and locals), the clock
  dialog,     \* the settings dialog: its React state and the requests it sent
  keyLog      \* history: each email's last request that changed its stored key

\* the variables of sign-in, the settings dialog and the key routes
accountVars == <<signin, dialog, keyLog>>
vars == <<documents, nextId, users, up, out, cos, deleted, accountVars>>

NoOut == [op |-> "none"]
Idle == [pc |-> "idle"]
\* no signIn callback runs, the dialog is not mounted, no key request was made
SignInIdle == [procs |-> <<>>, now |-> 0]
DialogClosed == [pc |-> "closed"]
NoKeyLog == [e \in Emails |-> [op |-> "none", key |-> ""]]

\* mutant: the query forgets the userId filter
FindAnyUser(store, userId) == store

\* Document.find({ userId })
Find(store, userId) == SelectSeq(store, LAMBDA d : d.userId = userId)

\* ------------------------------------------------ searchSimilarDocuments
Result(document, i, similarity) ==
  [documentId |-> document.id,
   chunkIndex |-> i - 1,
   chunk |-> IF i \in DOMAIN document.chunks THEN document.chunks[i]
             ELSE <<"undefined">>,
   similarity |-> similarity]

\* mutant: every computed similarity is kept
KeepAll(similarity, similarityThreshold) == ~similarity.nan

\* if (similarity >= similarityThreshold) results.push(...)
Keep(similarity, similarityThreshold) ==
  SimGeq(similarity, SimOfTenths(similarityThreshold))

RECURSIVE ScanChunksSkip(_, _, _, _, _)
\* mutant: a chunk whose embedding has another length is skipped
ScanChunksSkip(document, queryEmbedding, similarityThreshold, i, acc) ==
  IF acc.err \/ i > Len(document.embeddings) THEN acc
  ELSE LET c == cosineSimilarity(queryEmbedding, document.embeddings[i])
       IN  ScanChunksSkip(document, queryEmbedding, similarityThreshold, i + 1,
             [err |-> FALSE,
              results |-> IF ~c.err /\ Keep(c.val, similarityThreshold)
                            THEN Append(acc.results, Result(document, i, c.val))
                            ELSE acc.results])

RECURSIVE ScanChunks(_, _, _, _, _)
\* the inner for loop from index i on; acc = [err, results]
ScanChunks(document, queryEmbedding, similarityThreshold, i, acc) ==
  IF acc.err \/ i > Len(document.embeddings) THEN acc
  ELSE LET c == cosineSimilarity(queryEmbedding, document.embeddings[i])
       IN  IF c.err THEN [err |-> TRUE, results |-> <<>>]
           ELSE ScanChunks(document, queryEmbedding, similarityThreshold, i + 1,
                  [err |-> FALSE,
                   results |-> IF Keep(c.val, similarityThreshold)
                                 THEN Append(acc.results, Result(document, i, c.val))
                                 ELSE acc.results])

RECURSIVE ScanDocsThrowOnEmpty(_, _, _, _, _)
\* mutant: a document without embeddings makes the scan fail
ScanDocsThrowOnEmpty(found, queryEmbedding, similarityThreshold, k, acc) ==
  IF acc.err \/ k > Len(found) THEN acc
  ELSE ScanDocsThrowOnEmpty(found, queryEmbedding, similarityThreshold, k + 1,
         IF Len(found[k].embeddings) > 0
           THEN ScanChunks(found[k], queryEmbedding, similarityThreshold, 1, acc)
           ELSE [err |-> TRUE, results |-> <<>>])

RECURSIVE ScanDocs(_, _, _, _, _)
\* the outer for loop over the found documents from position k on
ScanDocs(found, queryEmbedding, similarityThreshold, k, acc) ==
  IF acc.err \/ k > Len(found) THEN acc
  ELSE ScanDocs(found, queryEmbedding, similarityThreshold, k + 1,
         IF Len(found[k].embeddings) > 0
           THEN ScanChunks(found[k], queryEmbedding, similarityThreshold, 1, acc)
           ELSE acc)

\* mutant: the comparator also orders equal similarities
CompareAfterOrEqual(a, b) == SimGeq(b.similarity, a.similarity)

\* the comparator (a, b) => b.similarity - a.similarity is positive
CompareAfter(a, b) == SimGt(b.similarity, a.similarity)

RECURSIVE InsertSorted(_, _)
\* place x before the first element the comparator orders after x
InsertSorted(sorted, x) ==
  IF sorted = <<>> THEN <<x>>
  ELSE IF CompareAfter(Head(sorted), x) THEN <<x>> \o sorted
  ELSE <<Head(sorted)>> \o InsertSorted(Tail(sorted), x)

\* mutant: the results are not sorted
SortNone(s) == s

RECURSIVE SortN(_, _)
SortN(s, n) == IF n = 0 THEN <<>> ELSE InsertSorted(SortN(s, n - 1), s[n])
\* Array.prototype.sort with the comparator above (a stable sort)
Sort(s) == SortN(s, Len(s))

\* mutant: one element too many
Slice0OffByOne(s, end) == SubSeq(s, 1, IF end + 1 < Len(s) THEN end + 1 ELSE Len(s))

\* Array.prototype.slice(0, end)
Slice0(s, end) ==
  LET len == Len(s)
      final == IF end < 0 THEN (IF len + end > 0 THEN len + end ELSE 0)
               ELSE (IF end < len THEN end ELSE len)
  IN  SubSeq(s, 1, final)

\* a search that cuts to limit in scan order and sorts what is left
searchSimilarDocumentsSliceFirst(store, queryEmbedding, userId, limit, similarityThreshold) ==
  LET found == Find(store, userId)
      scan == ScanDocs(found, queryEmbedding, similarityThreshold, 1,
                       [err |-> FALSE, results |-> <<>>])
  IN  IF scan.err THEN [err |-> TRUE, results |-> <<>>]
      ELSE [err |-> FALSE, results |-> Sort(Slice0(scan.results, limit))]

searchSimilarDocuments(store, queryEmbedding, userId, limit, similarityThreshold) ==
  LET found == Find(store, userId)
      scan == ScanDocs(found, queryEmbedding, similarityThreshold, 1,
                       [err |-> FALSE, results |-> <<>>])
  IN  IF scan.err THEN [err |-> TRUE, results |-> <<>>]
      ELSE [err |-> FALSE, results |-> Slice0(Sort(scan.results), limit)]

\* ----------------------------------------------------------- deleteDocument
RECURSIVE RemoveFirst(_, _, _)
RemoveFirst(store, documentId, userId) ==
  IF store = <<>> THEN <<>>
  ELSE IF Head(store).id = documentId /\ Head(store).userId = userId
    THEN Tail(store)
  ELSE <<Head(store)>> \o RemoveFirst(Tail(store), documentId, userId)

\* mutant: the delete is keyed by _id alone
deleteDocumentAnyUser(store, documentId, userId) ==
  LET hit == \E k \in DOMAIN store : store[k].id = documentId
  IN  [result |-> hit,
       store |-> IF hit THEN SelectSeq(store, LAMBDA d : d.id # documentId)
                 ELSE store]

\* Document.findOneAndDelete({ _id: documentId, userId }); return !!result
\* a deletion that answers true and leaves the document in the store
deleteDocumentKeep(store, documentId, userId) ==
  [result |-> \E k \in DOMAIN store :
                store[k].id = documentId /\ store[k].userId = userId,
   store |-> store]

deleteDocument(store, documentId, userId) ==
  LET hit == \E k \in DOMAIN store :
               store[k].id = documentId /\ store[k].userId = userId
  IN  [result |-> hit,
       store |-> IF hit THEN RemoveFirst(store, documentId, userId) ELSE store]

\* ------------------------------------------------------- the upload route
\* Text is a sequence of one-character strings.
IsSpace(c) == c \in {" ", "\t", "\n", "\r"}

RECURSIVE ReplaceCRLF(_)
\* .replace(/\r\n/g, '\n')
ReplaceCRLF(t) ==
  IF t = <<>> THEN <<>>
  ELSE IF Len(t) >= 2 /\ t[1] = "\r" /\ t[2] = "\n"
    THEN <<"\n">> \o ReplaceCRLF(Tail(Tail(t)))
  ELSE <<Head(t)>> \o ReplaceCRLF(Tail(t))

\* .replace(/\r/g, '\n') and .replace(/\t/g, ' ')
ReplaceChar(t, from, to) == [i \in DOMAIN t |-> IF t[i] = from THEN to ELSE t[i]]

RECURSIVE CollapseSpace(_)
\* .replace(/\s+/g, ' ')
CollapseSpace(t) ==
  IF t = <<>> THEN <<>>
  ELSE IF IsSpace(Head(t))
    THEN IF Len(t) >= 2 /\ IsSpace(t[2]) THEN CollapseSpace(Tail(t))
         ELSE <<" ">> \o CollapseSpace(Tail(t))
  ELSE <<Head(t)>> \o CollapseSpace(Tail(t))

RECURSIVE TrimLeft(_)
TrimLeft(t) == IF t # <<>> /\ IsSpace(Head(t)) THEN TrimLeft(Tail(t)) ELSE t
RECURSIVE TrimRight(_)
TrimRight(t) ==
  IF t # <<>> /\ IsSpace(t[Len(t)]) THEN TrimRight(SubSeq(t, 1, Len(t) - 1)) ELSE t
\* String.prototype.trim
Trim(t) == TrimRight(TrimLeft(t))

CleanText(extractedText) ==
  Trim(CollapseSpace(ReplaceChar(ReplaceChar(ReplaceCRLF(extractedText),
                                             "\r", "\n"), "\t", " ")))

\* a route that keeps every piece the splitter returns
FilterChunksNone(chunks) == chunks

\* chunks.filter(chunk => chunk.trim().length > 0)
FilterChunks(chunks) == SelectSeq(chunks, LAMBDA c : Len(Trim(c)) > 0)

RECURSIVE SplitAtSpaces(_, _)
\* the pieces of t between spaces, each space a piece of its own
SplitAtSpaces(t, cur) ==
  IF t = <<>> THEN (IF cur = <<>> THEN <<>> ELSE <<cur>>)
  ELSE IF Head(t) = " "
    THEN (IF cur = <<>> THEN <<>> ELSE <<cur>>) \o << <<" ">> >>
           \o SplitAtSpaces(Tail(t), <<>>)
  ELSE SplitAtSpaces(Tail(t), Append(cur, Head(t)))

\* textSplitter.splitText(cleanedText): the splitter is an external library.
\* Its answer here is the text cut at its spaces (the chunk size scaled down
\* to one word), separators included, so that the filter has work to do.
SplitText(cleanedText) == SplitAtSpaces(cleanedText, <<>>)

PdfType == "application/pdf"
TxtType == "text/plain"
DocxType == "application/vnd.openxmlformats-officedocument.wordprocessingml.document"
allowedTypes == {PdfType, TxtType, DocxType}
maxSize == 10 * 1024 * 1024

\* The uploaded files explored: present, type, size, and what extraction
\* gives (parseOk = FALSE: the PDF / DOCX parser rejects the bytes).
File(present, type, size, parseOk, text) ==
  [present |-> present, type |-> type, size |-> size, parseOk |-> parseOk, text |-> text]
Files ==
  { File(FALSE, TxtType, 0, TRUE, <<>>),
    File(TRUE, "image/png", 10, TRUE, <<"a">>),
    File(TRUE, TxtType, maxSize + 1, TRUE, <<"a">>),
    File(TRUE, PdfType, 10, FALSE, <<>>),
    File(TRUE, DocxType, 10, FALSE, <<>>),
    File(TRUE, TxtType, 2, TRUE, <<" ", "\n">>),
    File(TRUE, TxtType, maxSize, TRUE, <<"a", "\r", "\n", "\t", "b", " ">>) }

\* a route without the test for empty extracted text
RejectStatusNoTextCheck(file) ==
  IF ~file.present THEN 400
  ELSE IF file.type \notin allowedTypes THEN 400
  ELSE IF file.size > maxSize THEN 400
  ELSE IF file.type \in {PdfType, DocxType} /\ ~file.parseOk THEN 400
  ELSE 0

\* Validation and extraction (the early returns before cleaning):
\* 0 when the request goes on, else the status of the error response.
\* a size check that also refuses a file of exactly maxSize bytes
RejectStatusSizeInclusive(file) ==
  IF ~file.present THEN 400
  ELSE IF file.type \notin allowedTypes THEN 400
  ELSE IF file.size >= maxSize THEN 400
  ELSE IF file.type \in {PdfType, DocxType} /\ ~file.parseOk THEN 400
  ELSE IF Len(Trim(file.text)) = 0 THEN 400
  ELSE 0

RejectStatus(file) ==
  IF ~file.present THEN 400
  ELSE IF file.type \notin allowedTypes THEN 400
  ELSE IF file.size > maxSize THEN 400
  ELSE IF file.type \in {PdfType, DocxType} /\ ~file.parseOk THEN 400
  ELSE IF Len(Trim(file.text)) = 0 THEN 400
  ELSE 0

\* the error text of the early return ("" when the request goes on)
RejectMessage(file) ==
  IF ~file.present THEN "No file provided"
  ELSE IF file.type \notin allowedTypes
    THEN "Unsupported file type. Please upload PDF, TXT, or DOCX files."
  ELSE IF file.size > maxSize THEN "File size too large. Maximum size is 10MB."
  ELSE IF file.type = PdfType /\ ~file.parseOk
    THEN "Failed to parse PDF file. Please ensure it contains readable text."
  ELSE IF file.type = DocxType /\ ~file.parseOk
    THEN "Failed to parse DOCX file. Please ensure it contains readable text."
  ELSE IF Len(Trim(file.text)) = 0
    THEN "No text content could be extracted from the file."
  ELSE ""

\* integer square root of a perfect square
Sqrt(n) == CHOOSE r \in 0..n : r * r = n

\* val / magnitude on tenths (0 / 0 is NaN)
NDiv(val, magnitude) ==
  IF magnitude = 0 THEN NaN ELSE Num((val * 10) \div magnitude)

RECURSIVE SumSq(_, _)
\* truncatedValues.reduce((sum, val) => sum + val * val, 0)
SumSq(values, n) == IF n = 0 THEN 0 ELSE SumSq(values, n - 1) + values[n] * values[n]

\* values.slice(0, 768), magnitude, map(val => val / magnitude)
Normalize(values) ==
  LET truncatedValues == SubSeq(values, 1, IF Len(values) < EmbedDim THEN Len(values)
                                          ELSE EmbedDim)
      magnitude == Sqrt(SumSq(truncatedValues, Len(truncatedValues)))
  IN  [i \in DOMAIN truncatedValues |-> NDiv(truncatedValues[i], magnitude)]

\* embeddingResponse.embeddings.map(...)
MapEmbeddings(raw) == [i \in DOMAIN raw |-> Normalize(raw[i])]

\* What ai.models.embedContent can answer (raw values in tenths): a list of
\* vectors of any length and count, or a thrown error.
EmbedThrow == [ok |-> FALSE, embeddings |-> <<>>]
EmbedOk(raw) == [ok |-> TRUE, embeddings |-> raw]
EmbedResponses ==
  { EmbedThrow,
    EmbedOk(<< <<30, 40, 50>>, <<20, 0, 0>> >>),
    EmbedOk(<< <<-10, 0>>, <<0, 10>> >>),
    EmbedOk(<< <<0, 0>>, <<0, -20>> >>),
    EmbedOk(<< <<10>> >>) }

NoKey == ""
UserRecord(exists, key) == [exists |-> exists, geminiApiKey |-> key]

\* a document of the User collection (NoKey: the geminiApiKey field is unset)
UserDoc(email, key, lastActive) ==
  [email |-> email, geminiApiKey |-> key, lastActive |-> lastActive]

\* a read that returns the stored key whatever the projection
findOneAlwaysKey(store, email, plusKey) ==
  LET found == SelectSeq(store, LAMBDA u : u.email = email)
  IN  IF found = <<>> THEN UserRecord(FALSE, NoKey)
      ELSE UserRecord(TRUE, found[1].geminiApiKey)

\* User.findOne({ email }, projection): the first record of the email, or
\* none; the geminiApiKey field is select: false, so it comes back only when
\* the projection is '+geminiApiKey'
findOne(store, email, plusKey) ==
  LET found == SelectSeq(store, LAMBDA u : u.email = email)
  IN  IF found = <<>> THEN UserRecord(FALSE, NoKey)
      ELSE UserRecord(TRUE, IF plusKey THEN found[1].geminiApiKey ELSE NoKey)

\* the error response of an early return
ErrorResponse(status, message) ==
  [op |-> "upload", status |-> status, error |-> message,
   success |-> FALSE, chunkCount |-> 0,
   embeddingCount |-> 0, hasEmbeddings |-> FALSE, embeddingError |-> "",
   chunks |-> <<>>, embeddings |-> <<>>, documentId |-> 0]

\* the response object built after the embedding step (documentId 0: absent)
UploadResponse(chunks, embeddings, embeddingError, documentId) ==
  [op |-> "upload", status |-> 200, success |-> TRUE, chunkCount |-> Len(chunks),
   embeddingCount |-> Len(embeddings), hasEmbeddings |-> Len(embeddings) > 0,
   embeddingError |-> embeddingError, chunks |-> chunks,
   embeddings |-> embeddings, documentId |-> documentId]

\* documentData handed to Document.create, with the fresh _id
DocumentData(id, email, chunks, embeddings) ==
  [id |-> id, userId |-> email, chunks |-> chunks, embeddings |-> embeddings,
   chunkCount |-> Len(chunks), embeddingCount |-> Len(embeddings)]

\* What the request was and met, kept beside the response in out so that
\* the properties can speak of it: the file, the session, the answer of the
\* embedding service and whether embedContent was called at all.
Request(file, session, resp, embedCalled) ==
  [file |-> file, session |-> session, resp |-> resp, embedCalled |-> embedCalled]
WithRequest(response, req) == response @@ [req |-> req]

\* a save step that reports an id also when Document.create was rejected
FinishUploadAlwaysId(req, chunks, embeddings, embeddingError, dbOk) ==
  LET created == req.session # NoSession /\ dbOk
  IN  /\ documents' = IF created
                        THEN Append(documents,
                                    DocumentData(nextId, req.session, chunks, embeddings))
                        ELSE documents
      /\ nextId' = IF created THEN nextId + 1 ELSE nextId
      /\ out' = WithRequest(UploadResponse(chunks, embeddings, embeddingError,
                                           IF req.session # NoSession
                                             THEN nextId ELSE 0), req)
      /\ up' = Idle

\* a save step that overwrites the user's earlier document in place
FinishUploadUpsert(req, chunks, embeddings, embeddingError, dbOk) ==
  LET created == req.session # NoSession /\ dbOk
      mine == {k \in DOMAIN documents : documents[k].userId = req.session}
      k0 == CHOOSE k \in mine : TRUE
  IN  /\ documents' = IF ~created THEN documents
                        ELSE IF mine = {}
                          THEN Append(documents,
                                      DocumentData(nextId, req.session, chunks, embeddings))
                        ELSE [documents EXCEPT ![k0] =
                                DocumentData(documents[k0].id, req.session,
                                             chunks, embeddings)]
      /\ nextId' = IF created /\ mine = {} THEN nextId + 1 ELSE nextId
      /\ out' = WithRequest(UploadResponse(chunks, embeddings, embeddingError,
                                           IF ~created THEN 0
                                           ELSE IF mine = {} THEN nextId
                                           ELSE documents[k0].id), req)
      /\ up' = Idle

\* The save step and the response: Document.create runs only with a session
\* and may be rejected by the database (dbOk = FALSE), which is swallowed.
FinishUpload(req, chunks, embeddings, embeddingError, dbOk) ==
  LET created == req.session # NoSession /\ dbOk
  IN  /\ documents' = IF created
                        THEN Append(documents,
                                    DocumentData(nextId, req.session, chunks, embeddings))
                        ELSE documents
      /\ nextId' = IF created THEN nextId + 1 ELSE nextId
      /\ out' = WithRequest(UploadResponse(chunks, embeddings, embeddingError,
                                           IF created THEN nextId ELSE 0), req)
      /\ up' = Idle

\* an embedding step without the session check
EmbedPrecheckNoSessionCheck(session) ==
  IF session = NoSession THEN ""
  ELSE IF ~findOne(users, session, TRUE).exists
            \/ findOne(users, session, TRUE).geminiApiKey = NoKey
    THEN "Gemini API key not configured"
  ELSE ""

\* The embedding step up to the call of the service: "" when the call is
\* made, else the message of the error thrown before it.
EmbedPrecheck(session) ==
  IF session = NoSession THEN "User not authenticated"
  ELSE IF ~findOne(users, session, TRUE).exists
            \/ findOne(users, session, TRUE).geminiApiKey = NoKey
    THEN "Gemini API key not configured"
  ELSE ""

\* an embedding step that swallows the service's error without recording it
EmbedOutcomeSilent(resp) ==
  IF resp.ok THEN [embeddings |-> MapEmbeddings(resp.embeddings), error |-> ""]
  ELSE [embeddings |-> <<>>, error |-> ""]

\* The embedding step from the answer of the service on: [embeddings, error].
EmbedOutcome(resp) ==
  IF resp.ok THEN [embeddings |-> MapEmbeddings(resp.embeddings), error |-> ""]
  ELSE [embeddings |-> <<>>, error |-> "embedding service error"]

\* POST /api/upload, the whole handler.  resp is the answer of the embedding
\* service (read only when the call is made), dbOk whether Document.create
\* succeeds.
Upload(file, session, resp, dbOk) ==
  /\ up.pc = "idle"
  /\ nextId <= MaxUploads
  /\ UNCHANGED <<users, cos, deleted, accountVars>>
  /\ IF RejectStatus(file) # 0
       THEN /\ out' = WithRequest(ErrorResponse(RejectStatus(file), RejectMessage(file)),
                                   Request(file, session, resp, FALSE))
            /\ UNCHANGED <<documents, nextId, up>>
       ELSE LET chunks == FilterChunks(SplitText(CleanText(file.text)))
                called == EmbedPrecheck(session) = ""
                e == IF ~called
                       THEN [embeddings |-> <<>>, error |-> EmbedPrecheck(session)]
                       ELSE EmbedOutcome(resp)
            IN  FinishUpload(Request(file, session, resp, called), chunks,
                             e.embeddings, e.error, dbOk)

\* The same handler in two steps around the await of the embedding service,
\* for the properties that speak of a request in flight.
\* a route that saves the document before it calls the embedding service
UploadBeginSaveFirst(file, session, dbOk) ==
  /\ up.pc = "idle"
  /\ nextId <= MaxUploads
  /\ UNCHANGED <<users, cos, deleted, accountVars>>
  /\ IF RejectStatus(file) # 0
       THEN /\ out' = WithRequest(ErrorResponse(RejectStatus(file), RejectMessage(file)),
                                   Request(file, session, EmbedThrow, FALSE))
            /\ UNCHANGED <<documents, nextId, up>>
       ELSE LET chunks == FilterChunks(SplitText(CleanText(file.text)))
            IN  IF EmbedPrecheck(session) # ""
                  THEN FinishUpload(Request(file, session, EmbedThrow, FALSE),
                                    chunks, <<>>, EmbedPrecheck(session), dbOk)
                  ELSE /\ up' = [pc |-> "awaitEmbed", file |-> file,
                                 session |-> session, chunks |-> chunks]
                       /\ out' = NoOut
                       /\ documents' = Append(documents,
                                              DocumentData(nextId, session, chunks, <<>>))
                       /\ nextId' = nextId + 1

UploadBegin(file, session, dbOk) ==
  /\ up.pc = "idle"
  /\ nextId <= MaxUploads
  /\ UNCHANGED <<users, cos, deleted, accountVars>>
  /\ IF RejectStatus(file) # 0
       THEN /\ out' = WithRequest(ErrorResponse(RejectStatus(file), RejectMessage(file)),
                                   Request(file, session, EmbedThrow, FALSE))
            /\ UNCHANGED <<documents, nextId, up>>
       ELSE LET chunks == FilterChunks(SplitText(CleanText(file.text)))
            IN  IF EmbedPrecheck(session) # ""
                  THEN FinishUpload(Request(file, session, EmbedThrow, FALSE),
                                    chunks, <<>>, EmbedPrecheck(session), dbOk)
                  ELSE /\ up' = [pc |-> "awaitEmbed", file |-> file,
                                 session |-> session, chunks |-> chunks]
                       /\ out' = NoOut
                       /\ UNCHANGED <<documents, nextId>>

UploadEmbedReturn(resp, dbOk) ==
  /\ up.pc = "awaitEmbed"
  /\ UNCHANGED <<users, cos, deleted, accountVars>>
  /\ LET e == EmbedOutcome(resp)
     IN  FinishUpload(Request(up.file, up.session, resp, TRUE), up.chunks,
                      e.embeddings, e.error, dbOk)

\* The request ends while the handler awaits embedContent (the runtime stops
\* the handler): nothing after the await runs, and nothing answers.
UploadAbort ==
  /\ up.pc = "awaitEmbed"
  /\ up' = Idle
  /\ out' = [op |-> "abort", session |-> up.session]
  /\ UNCHANGED <<documents, nextId, users, cos, deleted, accountVars>>

\* ------------------------------------------------------ search and delete
Queries == { Vec(<<10, 0>>), Vec(<<0, 0>>), Vec(<<10>>) }
SearchUsers == {"alice", "bob"}
Limits == {-1, 1, 2}
Thresholds == {0, 6}

Search(queryEmbedding, userId, limit, similarityThreshold) ==
  LET r == searchSimilarDocuments(documents, queryEmbedding, userId, limit,
                                  similarityThreshold)
  IN  /\ out' = [op |-> "search", queryEmbedding |-> queryEmbedding,
                 userId |-> userId, limit |-> limit,
                 similarityThreshold |-> similarityThreshold,
                 err |-> r.err, results |-> r.results]
      /\ UNCHANGED <<documents, nextId, users, up, cos, deleted, accountVars>>

Delete(documentId, userId) ==
  LET r == deleteDocument(documents, documentId, userId)
  IN  /\ documents' = r.store
      /\ out' = [op |-> "delete", documentId |-> documentId, userId |-> userId,
                 result |-> r.result]
      /\ deleted' = IF r.result THEN deleted \cup {documentId} ELSE deleted
      /\ UNCHANGED <<nextId, users, up, cos, accountVars>>

\* getUserDocuments: the user's documents, newest first (documents holds
\* them in the order of creation), each reduced to the listed fields
Reverse(s) == [i \in 1..Len(s) |-> s[Len(s) + 1 - i]]
ListItem(doc) ==
  [documentId |-> doc.id, chunkCount |-> doc.chunkCount,
   embeddingCount |-> doc.embeddingCount]
getUserDocuments(store, userId) ==
  LET found == Reverse(Find(store, userId))
  IN  [i \in DOMAIN found |-> ListItem(found[i])]
List(userId) ==
  /\ out' = [op |-> "list", userId |-> userId,
             items |-> getUserDocuments(documents, userId)]
  /\ UNCHANGED <<documents, nextId, users, up, cos, deleted, accountVars>>

\* ------------------------------------------------ the gemini-api-key routes
\* geminiApiKey of a request body: absent or empty, a key, white space only
KeyInputs == {"", "k1", " "}

\* the trim setter of the geminiApiKey path of the schema, which Mongoose
\* runs on the value of an update
TrimKey(k) == IF k = " " THEN "" ELSE IF k = " k1" THEN "k1" ELSE k

\* a JSON boolean by its text (the values of a body are compared as text)
Bool(b) == IF b THEN "true" ELSE "false"

\* NextResponse.json(body, { status }) of a key route, beside its request
KeyResponse(op, session, key, status, body) ==
  [op |-> op, status |-> status, body |-> body,
   req |-> [session |-> session, key |-> key]]
ErrorBody(message) == [error |-> message]

\* findOneAndUpdate({ email }, ...): the first record of the email gets the
\* key (NoKey: $unset)
FirstOf(store, email) ==
  CHOOSE k \in DOMAIN store :
    /\ store[k].email = email
    /\ \A j \in DOMAIN store : store[j].email = email => k <= j
SetKey(store, email, key) ==
  [store EXCEPT ![FirstOf(store, email)].geminiApiKey = key]

\* POST /api/user/gemini-api-key (dbOk: the database answers)
KeyPost(session, key, dbOk) ==
  /\ UNCHANGED <<documents, nextId, up, cos, deleted, signin, dialog>>
  /\ IF session = NoSession
       THEN /\ out' = KeyResponse("keyPost", session, key, 401, ErrorBody("Unauthorized"))
            /\ UNCHANGED <<users, keyLog>>
     ELSE IF key = ""
       THEN /\ out' = KeyResponse("keyPost", session, key, 400,
                                  ErrorBody("Gemini API key is required"))
            /\ UNCHANGED <<users, keyLog>>
     ELSE IF ~dbOk
       THEN /\ out' = KeyResponse("keyPost", session, key, 500,
                                  ErrorBody("Failed to save Gemini API key"))
            /\ UNCHANGED <<users, keyLog>>
     ELSE IF ~findOne(users, session, TRUE).exists
       THEN /\ out' = KeyResponse("keyPost", session, key, 404, ErrorBody("User not found"))
            /\ UNCHANGED <<users, keyLog>>
     ELSE /\ users' = SetKey(users, session, TrimKey(key))
          /\ keyLog' = [keyLog EXCEPT ![session] = [op |-> "post", key |-> key]]
          /\ out' = KeyResponse("keyPost", session, key, 200,
                                [success |-> Bool(TRUE),
                                 message |-> "Gemini API key saved successfully"])

\* a status body that hands out the key itself
GetBodyWithKey(user) ==
  [success |-> Bool(TRUE), hasApiKey |-> Bool(user.geminiApiKey # NoKey),
   geminiApiKey |-> user.geminiApiKey]

\* { success: true, hasApiKey: !!user.geminiApiKey }
GetBody(user) ==
  [success |-> Bool(TRUE), hasApiKey |-> Bool(user.geminiApiKey # NoKey)]

\* GET /api/user/gemini-api-key
KeyGet(session, dbOk) ==
  /\ UNCHANGED <<documents, nextId, users, up, cos, deleted, accountVars>>
  /\ out' =
       IF session = NoSession
         THEN KeyResponse("keyGet", session, NoKey, 401, ErrorBody("Unauthorized"))
       ELSE IF ~dbOk
         THEN KeyResponse("keyGet", session, NoKey, 500,
                          ErrorBody("Failed to retrieve API key status"))
       ELSE IF ~findOne(users, session, TRUE).exists
         THEN KeyResponse("keyGet", session, NoKey, 404, ErrorBody("User not found"))
       ELSE KeyResponse("keyGet", session, NoKey, 200,
                        GetBody(findOne(users, session, TRUE)))

\* DELETE /api/user/gemini-api-key
KeyDelete(session, dbOk) ==
  /\ UNCHANGED <<documents, nextId, up, cos, deleted, signin, dialog>>
  /\ IF session = NoSession
       THEN /\ out' = KeyResponse("keyDelete", session, NoKey, 401,
                                  ErrorBody("Unauthorized"))
            /\ UNCHANGED <<users, keyLog>>
     ELSE IF ~dbOk
       THEN /\ out' = KeyResponse("keyDelete", session, NoKey, 500,
                                  ErrorBody("Failed to delete Gemini API key"))
            /\ UNCHANGED <<users, keyLog>>
     ELSE IF ~findOne(users, session, TRUE).exists
       THEN /\ out' = KeyResponse("keyDelete", session, NoKey, 404,
                                  ErrorBody("User not found"))
            /\ UNCHANGED <<users, keyLog>>
     ELSE /\ users' = SetKey(users, session, NoKey)
          /\ keyLog' = [keyLog EXCEPT ![session] = [op |-> "delete", key |-> NoKey]]
          /\ out' = KeyResponse("keyDelete", session, NoKey, 200,
                                [success |-> Bool(TRUE),
                                 message |-> "Gemini API key deleted successfully"])

\* the session callback of next-auth: the session object sent to the client
\* (a failed read is caught and reported as no key)
SessionObject(email, dbOk) ==
  [id |-> email, email |-> email,
   hasGeminiApiKey |-> Bool(dbOk /\ findOne(users, email, TRUE).geminiApiKey # NoKey)]
SessionCallback(email, dbOk) ==
  /\ out' = KeyResponse("session", email, NoKey, 200, SessionObject(email, dbOk))
  /\ UNCHANGED <<documents, nextId, users, up, cos, deleted, accountVars>>

\* ------------------------------------------------- the signIn callback
\* One run of the callback: its position, the email of the Google account,
\* whether findOne returned a record (dbUser), and what it returned.
SignInStart == [pc |-> "start", email |-> "", seen |-> FALSE, result |-> FALSE]
SignInFound(email, seen) ==
  [pc |-> "found", email |-> email, seen |-> seen, result |-> FALSE]
SignInDone(proc, result) == [proc EXCEPT !.pc = "done", !.result = result]
SignInEmails == {"alice", "bob", "carol"}

\* the unique index on email: an insert of an email that has a record is
\* rejected
HasRecord(store, email) == \E k \in DOMAIN store : store[k].email = email

\* up to the return of User.findOne({ email: user.email }): a provider other
\* than google returns true at once, a database error is caught and the
\* callback returns false
SignInFind(p, email, google, dbOk) ==
  /\ p \in DOMAIN signin.procs
  /\ signin.procs[p].pc = "start"
  /\ signin' =
       [signin EXCEPT !.procs[p] =
          IF ~google THEN SignInDone(SignInFound(email, FALSE), TRUE)
          ELSE IF ~dbOk THEN SignInDone(SignInFound(email, FALSE), FALSE)
          ELSE SignInFound(email, findOne(users, email, FALSE).exists)]
  /\ UNCHANGED <<documents, nextId, users, up, out, cos, deleted, dialog, keyLog>>

\* a save on a collection without the unique index
SignInSaveNoIndex(p, dbOk) ==
  /\ p \in DOMAIN signin.procs
  /\ signin.procs[p].pc = "found"
  /\ UNCHANGED <<documents, nextId, up, out, cos, deleted, dialog, keyLog>>
  /\ LET me == signin.procs[p]
         now == signin.now + 1
     IN  IF ~dbOk
           THEN /\ signin' = [signin EXCEPT !.procs[p] = SignInDone(me, FALSE)]
                /\ users' = users
         ELSE /\ signin' = [signin EXCEPT !.procs[p] = SignInDone(me, TRUE),
                                          !.now = now]
              /\ users' = IF me.seen
                            THEN [users EXCEPT
                                    ![FirstOf(users, me.email)].lastActive = now]
                            ELSE Append(users, UserDoc(me.email, NoKey, now))

\* from the return of findOne to the return of the callback: a new record
\* is saved when none was found, else lastActive of the found one is set;
\* a rejected save (the unique index, or the database) is caught and the
\* callback returns false
SignInSave(p, dbOk) ==
  /\ p \in DOMAIN signin.procs
  /\ signin.procs[p].pc = "found"
  /\ UNCHANGED <<documents, nextId, up, out, cos, deleted, dialog, keyLog>>
  /\ LET me == signin.procs[p]
         now == signin.now + 1
     IN  IF ~dbOk \/ (~me.seen /\ HasRecord(users, me.email))
           THEN /\ signin' = [signin EXCEPT !.procs[p] = SignInDone(me, FALSE),
                                            !.now = IF dbOk THEN now ELSE @]
                /\ users' = users
         ELSE /\ signin' = [signin EXCEPT !.procs[p] = SignInDone(me, TRUE),
                                          !.now = now]
              /\ users' = IF me.seen
                            THEN [users EXCEPT
                                    ![FirstOf(users, me.email)].lastActive = now]
                            ELSE Append(users, UserDoc(me.email, NoKey, now))

\* ------------------------------------------------- the settings dialog
\* The component's state (useState), the position of a running
\* handleSaveApiKey (pc) with the key its closure holds, of a running
\* handleDeleteApiKey (deleting), the pending setTimeout callbacks, and what
\* went over the wire: the last return of validateGeminiApiKey and the key
\* of the POST in flight.
DialogInputs == {"", " ", "k1", " k1"}
NoPost == "none"
NotValidated == [key |-> "none", ok |-> FALSE]
DialogMounted ==
  [pc |-> "idle", geminiApiKey |-> "", isSaving |-> FALSE,
   isValidating |-> FALSE, isDeleting |-> FALSE, saveStatus |-> "idle",
   hasApiKey |-> FALSE, closure |-> "", timers |-> 0,
   validated |-> NotValidated, sent |-> NoPost, clicks |-> 0]
DialogRest == <<documents, nextId, users, up, out, cos, deleted, signin, keyLog>>

\* onChange of the input
TypeKey(k) ==
  /\ dialog.pc # "closed"
  /\ dialog' = [dialog EXCEPT !.geminiApiKey = k]
  /\ UNCHANGED DialogRest

\* loadApiKeyStatus, from the return of its fetch
LoadApiKeyStatus(ok, has) ==
  /\ dialog.pc # "closed"
  /\ dialog' = IF ok THEN [dialog EXCEPT !.hasApiKey = has] ELSE dialog
  /\ UNCHANGED DialogRest

\* handleSaveApiKey up to its first await; the Save button is disabled
\* while isSaving
SaveClick ==
  /\ dialog.pc = "idle"
  /\ ~dialog.isSaving
  /\ dialog.timers < MaxTimers
  /\ dialog' =
       IF TrimKey(dialog.geminiApiKey) = ""
         THEN [dialog EXCEPT !.saveStatus = "error",
                             !.clicks = (@ + 1) % 2]
       ELSE [dialog EXCEPT !.isSaving = TRUE, !.isValidating = TRUE,
                           !.saveStatus = "idle", !.pc = "validating",
                           !.closure = dialog.geminiApiKey,
                           !.validated = NotValidated,
                           !.clicks = (@ + 1) % 2]
  /\ UNCHANGED DialogRest

\* finally { setIsSaving(false); setIsValidating(false) }
SaveFinally(d) ==
  [d EXCEPT !.isSaving = FALSE, !.isValidating = FALSE, !.pc = "idle",
            !.sent = NoPost]

\* a handler that posts whatever the validation returned
ValidateReturnsPostAnyway(ok) ==
  /\ dialog.pc = "validating"
  /\ dialog' = [dialog EXCEPT
                  !.validated = [key |-> TrimKey(dialog.closure), ok |-> ok],
                  !.pc = "posting", !.sent = TrimKey(dialog.closure)]
  /\ UNCHANGED DialogRest

\* from the return of validateGeminiApiKey(geminiApiKey.trim()) to the next
\* await: an invalid key ends the attempt, a valid one is posted
ValidateReturns(ok) ==
  /\ dialog.pc = "validating"
  /\ LET d == [dialog EXCEPT
                 !.validated = [key |-> TrimKey(dialog.closure), ok |-> ok]]
     IN  dialog' =
           IF ~ok THEN SaveFinally([d EXCEPT !.saveStatus = "error"])
           ELSE [d EXCEPT !.pc = "posting", !.sent = TrimKey(dialog.closure)]
  /\ UNCHANGED DialogRest

\* from the return of the POST to the end of the handler; outcome is
\* "ok", "rejected" (response.ok false) or "threw"
PostReturns(outcome) ==
  /\ dialog.pc = "posting"
  /\ dialog' =
       SaveFinally(IF outcome = "ok"
                     THEN [dialog EXCEPT !.saveStatus = "success",
                                         !.hasApiKey = TRUE,
                                         !.geminiApiKey = "",
                                         !.timers = @ + 1]
                   ELSE [dialog EXCEPT !.saveStatus = "error"])
  /\ UNCHANGED DialogRest

\* handleDeleteApiKey up to its await; the button shows when hasApiKey and
\* is disabled while isDeleting
DeleteClick ==
  /\ dialog.pc # "closed"
  /\ dialog.hasApiKey
  /\ ~dialog.isDeleting
  /\ dialog.timers < MaxTimers
  /\ dialog' = [dialog EXCEPT !.isDeleting = TRUE, !.saveStatus = "idle"]
  /\ UNCHANGED DialogRest

\* from the return of the DELETE to the end of the handler
DeleteReturns(outcome) ==
  /\ dialog.pc # "closed"
  /\ dialog.isDeleting
  /\ dialog' =
       IF outcome = "ok"
         THEN [dialog EXCEPT !.hasApiKey = FALSE, !.saveStatus = "success",
                             !.timers = @ + 1, !.isDeleting = FALSE]
       ELSE [dialog EXCEPT !.saveStatus = "error", !.isDeleting = FALSE]
  /\ UNCHANGED DialogRest

\* setTimeout(() => setSaveStatus("idle"), 3000)
StatusTimeout ==
  /\ dialog.pc # "closed"
  /\ dialog.timers > 0
  /\ dialog' = [dialog EXCEPT !.saveStatus = "idle", !.timers = @ - 1]
  /\ UNCHANGED DialogRest

\* ------------------------------------------- cosineSimilarity on its own
Components == {Num(-10), Num(0), Num(6), Num(10), NaN}
Vectors == UNION {[1..n -> Components] : n \in 0..MaxVecLen}
CosIdle == [done |-> FALSE, vecA |-> <<>>, vecB |-> <<>>, r |-> CosThrow]

\* the call returns (or throws)
CosCall ==
  /\ ~cos.done
  /\ cos' = [cos EXCEPT !.done = TRUE, !.r = cosineSimilarity(cos.vecA, cos.vecB)]
  /\ UNCHANGED <<documents, nextId, users, up, out, deleted, accountVars>>

Init ==
  /\ documents = <<>>
  /\ nextId = 1
  /\ users = <<UserDoc("alice", "key", 0), UserDoc("bob", "key", 0)>>
  /\ up = Idle
  /\ out = NoOut
  /\ cos = CosIdle
  /\ deleted = {}
  /\ signin = SignInIdle
  /\ dialog = DialogClosed
  /\ keyLog = NoKeyLog

Next ==
  \/ \E file \in Files :
       \* inputs the handler does not read on its path are not varied
       IF RejectStatus(file) # 0 THEN Upload(file, NoSession, EmbedThrow, FALSE)
       ELSE \E session \in Sessions :
              IF session = NoSession THEN Upload(file, session, EmbedThrow, FALSE)
              ELSE \E dbOk \in BOOLEAN :
                     IF EmbedPrecheck(session) # ""
                       THEN Upload(file, session, EmbedThrow, dbOk)
                       ELSE \E resp \in EmbedResponses :
                              Upload(file, session, resp, dbOk)
  \/ \E q \in Queries, userId \in SearchUsers, limit \in Limits, th \in Thresholds :
       Search(q, userId, limit, th)
  \/ \E documentId \in 1..MaxUploads, userId \in Emails :
       Delete(documentId, userId)
  \/ \E userId \in SearchUsers : List(userId)

\* the handler of an upload in two steps, which may end between them, with
\* deletion, and no search
NextSteps ==
  \/ \E file \in Files, session \in Sessions, dbOk \in BOOLEAN :
       UploadBegin(file, session, dbOk)
  \/ \E resp \in EmbedResponses, dbOk \in BOOLEAN : UploadEmbedReturn(resp, dbOk)
  \/ UploadAbort
  \/ \E documentId \in 1..MaxUploads, userId \in Emails :
       Delete(documentId, userId)

Spec == Init /\ [][Next]_vars
SpecSteps == Init /\ [][NextSteps]_vars

\* The filter applied to whatever the text splitter may return: the pieces a
\* splitter can hand over are blank or not, in any order.
ChunkValues == { <<"a">>, <<" ", "b">>, <<" ">>, <<>> }
ChunkSeqs == UNION {[1..n -> ChunkValues] : n \in 0..MaxChunks}
FilterStep ==
  /\ up.pc = "split"
  /\ up' = Idle
  /\ out' = [op |-> "chunks", split |-> up.chunks,
             chunks |-> FilterChunks(up.chunks)]
  /\ UNCHANGED <<documents, nextId, users, cos, deleted, accountVars>>
InitChunks ==
  /\ documents = <<>>
  /\ nextId = 1
  /\ users = <<>>
  /\ up \in [pc : {"split"}, chunks : ChunkSeqs]
  /\ out = NoOut
  /\ cos = CosIdle
  /\ deleted = {}
  /\ signin = SignInIdle
  /\ dialog = DialogClosed
  /\ keyLog = NoKeyLog
NextChunks == FilterStep
SpecChunks == InitChunks /\ [][NextChunks]_vars

\* searchSimilarDocuments applied to given contents of the store: the
\* contents of the scenario (one document of three chunks), documents of two
\* users with equal similarities, documents without embeddings or with
\* embeddings of another length, and the empty store.
StoredDoc(id, email, raw) ==
  DocumentData(id, email, [i \in DOMAIN raw |-> <<"c">>],
               [i \in DOMAIN raw |-> Vec(raw[i])])
ScenarioStore == << StoredDoc(1, "alice", << <<10, 0>>, <<0, 10>>, <<9, 1>> >>) >>
SearchStores ==
  { <<>>,
    ScenarioStore,
    << StoredDoc(1, "alice", << <<0, 10>>, <<6, 8>> >>),
       StoredDoc(2, "bob", << <<10, 0>> >>),
       StoredDoc(3, "alice", << <<8, 6>>, <<6, 8>>, <<10, 0>> >>) >>,
    << StoredDoc(1, "alice", << >>),
       StoredDoc(2, "alice", << <<10, 0>>, <<10>> >>),
       StoredDoc(3, "bob", << <<-10, 0>>, <<10, 0>> >>) >> }
SearchLimits == {-1, 0, 1, 2, 3, 4}
SearchThresholds == {0, 5, 10}
InitSearch ==
  /\ documents \in SearchStores
  /\ nextId = 4
  /\ users = <<>>
  /\ up = Idle
  /\ out = NoOut
  /\ cos = CosIdle
  /\ deleted = {}
  /\ signin = SignInIdle
  /\ dialog = DialogClosed
  /\ keyLog = NoKeyLog
NextSearch ==
  \E q \in Queries, userId \in SearchUsers, limit \in SearchLimits,
     th \in SearchThresholds : Search(q, userId, limit, th)
SpecSearch == InitSearch /\ [][NextSearch]_vars

\* MaxSignIns signIn callbacks, interleaved, on a store where bob has a
\* record with a key and alice has none.
InitSignIn ==
  /\ documents = <<>>
  /\ nextId = 1
  /\ users = <<UserDoc("bob", "k1", 0)>>
  /\ up = Idle
  /\ out = NoOut
  /\ cos = CosIdle
  /\ deleted = {}
  /\ signin = [procs |-> [p \in 1..MaxSignIns |-> SignInStart], now |-> 0]
  /\ dialog = DialogClosed
  /\ keyLog = NoKeyLog
NextSignIn ==
  \/ \E p \in 1..MaxSignIns, email \in SignInEmails, google, dbOk \in BOOLEAN :
       SignInFind(p, email, google, dbOk)
  \/ \E p \in 1..MaxSignIns, dbOk \in BOOLEAN : SignInSave(p, dbOk)
SpecSignIn == InitSignIn /\ [][NextSignIn]_vars

\* The upload route on requests that fail more than one test at a time, or
\* sit on the size limit.
ValidationFiles ==
  { File(FALSE, "", maxSize + 1, FALSE, <<>>),
    File(TRUE, "", 1, TRUE, <<"a">>),
    File(TRUE, "image/png", maxSize + 1, FALSE, <<>>),
    File(TRUE, PdfType, maxSize + 1, FALSE, <<>>),
    File(TRUE, PdfType, maxSize, FALSE, <<>>),
    File(TRUE, DocxType, maxSize, TRUE, <<"a">>) }
NextValidate ==
  \/ \E file \in ValidationFiles, session \in Sessions, dbOk \in BOOLEAN :
       UploadBegin(file, session, dbOk)
  \/ \E resp \in EmbedResponses, dbOk \in BOOLEAN : UploadEmbedReturn(resp, dbOk)
  \/ UploadAbort
  \/ \E documentId \in 1..MaxUploads, userId \in Emails :
       Delete(documentId, userId)
SpecValidate == Init /\ [][NextValidate]_vars

\* The settings dialog of one signed-in user, the servers it talks to being
\* free to answer either way.
FetchOutcomes == {"ok", "rejected", "threw"}
InitDialog ==
  /\ documents = <<>>
  /\ nextId = 1
  /\ users = <<UserDoc("alice", NoKey, 0)>>
  /\ up = Idle
  /\ out = NoOut
  /\ cos = CosIdle
  /\ deleted = {}
  /\ signin = SignInIdle
  /\ dialog = DialogMounted
  /\ keyLog = NoKeyLog
NextDialog ==
  \/ \E k \in DialogInputs : TypeKey(k)
  \/ \E ok, has \in BOOLEAN : LoadApiKeyStatus(ok, has)
  \/ SaveClick
  \/ \E ok \in BOOLEAN : ValidateReturns(ok)
  \/ \E outcome \in FetchOutcomes : PostReturns(outcome)
  \/ DeleteClick
  \/ \E outcome \in FetchOutcomes : DeleteReturns(outcome)
  \/ StatusTimeout
SpecDialog == InitDialog /\ [][NextDialog]_vars

\* The key routes and the session callback on a store where alice and bob
\* have a record without a key and carol has none.
InitKeys ==
  /\ documents = <<>>
  /\ nextId = 1
  /\ users = <<UserDoc("alice", NoKey, 0), UserDoc("bob", NoKey, 0)>>
  /\ up = Idle
  /\ out = NoOut
  /\ cos = CosIdle
  /\ deleted = {}
  /\ signin = SignInIdle
  /\ dialog = DialogClosed
  /\ keyLog = NoKeyLog
NextKeys ==
  \/ \E session \in Sessions, key \in KeyInputs, dbOk \in BOOLEAN :
       KeyPost(session, key, dbOk)
  \/ \E session \in Sessions, dbOk \in BOOLEAN : KeyGet(session, dbOk)
  \/ \E session \in Sessions, dbOk \in BOOLEAN : KeyDelete(session, dbOk)
  \/ \E email \in Emails, dbOk \in BOOLEAN : SessionCallback(email, dbOk)
SpecKeys == InitKeys /\ [][NextKeys]_vars

\* cosineSimilarity applied to every pair of vectors of the bounded set
InitCos ==
  /\ documents = <<>>
  /\ nextId = 1
  /\ users = <<>>
  /\ up = Idle
  /\ out = NoOut
  /\ cos \in [done : {FALSE}, vecA : Vectors, vecB : Vectors, r : {CosThrow}]
  /\ deleted = {}
  /\ signin = SignInIdle
  /\ dialog = DialogClosed
  /\ keyLog = NoKeyLog
NextCos == CosCall
SpecCos == InitCos /\ [][NextCos]_vars

\* ================================================================ claims
\* out holds the response of the step just taken and every step that writes
\* the store overwrites it, so a search response in out was computed on the
\* current contents of documents.
IsSearch == out.op = "search"
SearchOk == IsSearch /\ ~out.err
DocIds == {documents[k].id : k \in DOMAIN documents}
DocWithId(id) == documents[CHOOSE k \in DOMAIN documents : documents[k].id = id]
DocPos(id) == CHOOSE k \in DOMAIN documents : documents[k].id = id

\* the (document position, embedding index) pairs of a user's documents
Candidates(userId) ==
  UNION { {<<k, i>> : i \in DOMAIN documents[k].embeddings} :
            k \in {j \in DOMAIN documents : documents[j].userId = userId} }
CandidateCos(q, c) == cosineSimilarity(q, documents[c[1]].embeddings[c[2]])
\* the pairs of a user that reach the threshold
Qualifying(q, userId, th) ==
  {c \in Candidates(userId) :
     ~CandidateCos(q, c).err /\ SimGeq(CandidateCos(q, c).val, SimOfTenths(th))}

\* no stored embedding holds a NaN component
StoredFinite ==
  \A k \in DOMAIN documents : \A i \in DOMAIN documents[k].embeddings :
    \A j \in DOMAIN documents[k].embeddings[i] : ~documents[k].embeddings[i][j].nan

\* C1: a search scoped to user A returns only results whose documentId is a
\* document owned by A, and no chunk of a document owned by another user,
\* even when that user's embeddings are more similar to the query.
C1_SearchScopedToUser ==
  IsSearch =>
    \A k \in DOMAIN out.results :
      /\ out.results[k].documentId \in DocIds
      /\ DocWithId(out.results[k].documentId).userId = out.userId
      /\ \A j \in DOMAIN documents :
           documents[j].userId # out.userId
             => documents[j].id # out.results[k].documentId

\* a search of A returned something while a chunk of another user is strictly
\* more similar to the query than every chunk of A
C1_Witness ==
  /\ SearchOk
  /\ StoredFinite
  /\ out.results # <<>>
  /\ \E j \in DOMAIN documents : \E i \in DOMAIN documents[j].embeddings :
       /\ documents[j].userId # out.userId
       /\ ~cosineSimilarity(out.queryEmbedding, documents[j].embeddings[i]).err
       /\ \A c \in Candidates(out.userId) :
            \/ CandidateCos(out.queryEmbedding, c).val.nan
            \/ SimGt(cosineSimilarity(out.queryEmbedding,
                                      documents[j].embeddings[i]).val,
                     CandidateCos(out.queryEmbedding, c).val)

\* C2 as stated: a search that does not fail never returns more than limit
\* results, for every limit.
C2_AtMostLimit == SearchOk => Len(out.results) <= out.limit

\* C2 amended: a search that does not fail with a limit >= 0 never returns
\* more than limit results.
C2_AtMostLimitNonNegative ==
  (SearchOk /\ out.limit >= 0) => Len(out.results) <= out.limit

\* more pairs qualify than the limit allows, and exactly limit are returned
C2_Witness ==
  /\ SearchOk
  /\ StoredFinite
  /\ out.limit >= 0
  /\ Cardinality(Qualifying(out.queryEmbedding, out.userId,
                            out.similarityThreshold)) > out.limit
  /\ Len(out.results) = out.limit

\* C3: every result's similarity is the cosine similarity of the query and
\* the embedding at (documentId, chunkIndex) and is >= threshold.
C3_ResultsReachThreshold ==
  IsSearch =>
    \A k \in DOMAIN out.results :
      LET r == out.results[k]
          d == DocWithId(r.documentId)
      IN  /\ r.documentId \in DocIds
          /\ r.chunkIndex + 1 \in DOMAIN d.embeddings
          /\ ~cosineSimilarity(out.queryEmbedding, d.embeddings[r.chunkIndex + 1]).err
          /\ r.similarity =
               cosineSimilarity(out.queryEmbedding, d.embeddings[r.chunkIndex + 1]).val
          /\ SimGeq(r.similarity, SimOfTenths(out.similarityThreshold))

\* a result sits exactly on the threshold, and a chunk of the same user lies
\* strictly below it and is left out
C3_Witness ==
  /\ SearchOk
  /\ StoredFinite
  /\ \E k \in DOMAIN out.results :
       SimEq(out.results[k].similarity, SimOfTenths(out.similarityThreshold))
  /\ \E c \in Candidates(out.userId) :
       /\ ~CandidateCos(out.queryEmbedding, c).val.nan
       /\ ~SimGeq(CandidateCos(out.queryEmbedding, c).val,
                  SimOfTenths(out.similarityThreshold))

\* C4: the results are sorted non-increasing by similarity.
C4_SortedNonIncreasing ==
  IsSearch =>
    \A k \in 1..(Len(out.results) - 1) :
      SimGeq(out.results[k].similarity, out.results[k + 1].similarity)

\* two results of one document come back in the reverse of their chunk order
C4_Witness ==
  /\ SearchOk
  /\ StoredFinite
  /\ \E k \in 1..(Len(out.results) - 1) :
       /\ out.results[k].documentId = out.results[k + 1].documentId
       /\ out.results[k].chunkIndex > out.results[k + 1].chunkIndex
       /\ SimGt(out.results[k].similarity, out.results[k + 1].similarity)

\* r was scanned before s: document retrieval order, then chunk index
ScannedBefore(r, s) ==
  \/ DocPos(r.documentId) < DocPos(s.documentId)
  \/ r.documentId = s.documentId /\ r.chunkIndex < s.chunkIndex

\* C5: results of equal similarity keep their scan order (document retrieval
\* order first, then chunk index ascending).
C5_StableTieBreak ==
  IsSearch =>
    \A k, m \in DOMAIN out.results :
      (k < m /\ SimEq(out.results[k].similarity, out.results[m].similarity))
        => ScannedBefore(out.results[k], out.results[m])

\* a tie between the second chunks of two documents
C5_Witness ==
  /\ SearchOk
  /\ StoredFinite
  /\ \E k, m \in DOMAIN out.results :
       /\ k < m
       /\ SimEq(out.results[k].similarity, out.results[m].similarity)
       /\ out.results[k].documentId # out.results[m].documentId
       /\ out.results[k].chunkIndex > 0

\* some embedding of the user's documents has not the length of the query
LengthMismatch(q, userId) ==
  \E c \in Candidates(userId) : Len(documents[c[1]].embeddings[c[2]]) # Len(q)

\* C6: when the query and any embedding of the user's documents differ in
\* length the search fails and returns no result at all.
C6_MismatchAbortsSearch ==
  (IsSearch /\ LengthMismatch(out.queryEmbedding, out.userId))
    => (out.err /\ out.results = <<>>)

\* the search failed although another chunk of the user reaches the threshold
C6_Witness ==
  /\ IsSearch
  /\ StoredFinite
  /\ out.err
  /\ LengthMismatch(out.queryEmbedding, out.userId)
  /\ Qualifying(out.queryEmbedding, out.userId, out.similarityThreshold) # {}

\* the Euclidean norm of v is 0: every component is the number 0
NormZero(v) == \A i \in DOMAIN v : ~v[i].nan /\ v[i].v = 0

\* C7: cosineSimilarity(a, b) returns exactly 0, with no error and no NaN,
\* when a and b have equal length and one of them has norm 0 (two empty
\* vectors included).
C7_ZeroNormGivesZero ==
  (cos.done /\ Len(cos.vecA) = Len(cos.vecB)
     /\ (NormZero(cos.vecA) \/ NormZero(cos.vecB)))
    => (~cos.r.err /\ cos.r.val = SimZero)

\* a zero vector was compared with a vector that holds a NaN component
C7_Witness ==
  /\ cos.done
  /\ Len(cos.vecA) = Len(cos.vecB) /\ Len(cos.vecA) > 0
  /\ NormZero(cos.vecA)
  /\ \E i \in DOMAIN cos.vecB : cos.vecB[i].nan
  /\ cos.r = CosVal(SimZero)

\* the store without the documents whose embeddings sequence is empty
WithoutEmpty(store) == SelectSeq(store, LAMBDA d : Len(d.embeddings) > 0)

\* C8: a search for a user with no documents, or none with embeddings,
\* returns an empty sequence and no error; a document with embeddings = []
\* contributes no result and does not change what the search returns from
\* the user's other documents.
C8_EmptyEmbeddingsAreSkipped ==
  IsSearch =>
    /\ (\A k \in DOMAIN documents :
          documents[k].userId = out.userId => documents[k].embeddings = <<>>)
         => (~out.err /\ out.results = <<>>)
    /\ \A k \in DOMAIN out.results :
         DocWithId(out.results[k].documentId).embeddings # <<>>
    /\ LET r == searchSimilarDocuments(WithoutEmpty(documents), out.queryEmbedding,
                                       out.userId, out.limit, out.similarityThreshold)
       IN  out.err = r.err /\ out.results = r.results

\* the user owns a document with chunks and no embeddings, scanned first,
\* and the search returned a chunk of another document of the same user
C8_Witness ==
  /\ SearchOk
  /\ StoredFinite
  /\ out.results # <<>>
  /\ \E k \in DOMAIN documents :
       /\ documents[k].userId = out.userId
       /\ documents[k].embeddings = <<>>
       /\ documents[k].chunks # <<>>
       /\ DocPos(out.results[1].documentId) > k

\* C9: deleteDocument called with a userId that is not the owner of the
\* document returns false and leaves the store unchanged.
C9_DeleteByNonOwnerIsNoOp ==
  [][ (/\ out'.op = "delete"
       /\ out' # out
       /\ \E k \in DOMAIN documents :
            /\ documents[k].id = out'.documentId
            /\ documents[k].userId # out'.userId)
      => (out'.result = FALSE /\ documents' = documents) ]_vars

\* a delete by another user was answered false and the document is there
C9_Witness ==
  /\ out.op = "delete"
  /\ out.result = FALSE
  /\ \E k \in DOMAIN documents :
       /\ documents[k].id = out.documentId
       /\ documents[k].userId # out.userId
       /\ out.userId \in {documents[j].userId : j \in DOMAIN documents}

\* C10: every persisted Document with a non-empty embeddings sequence has
\* len(chunks) = len(embeddings), whatever the embedding service returned.
C10_ChunksMatchEmbeddings ==
  \A k \in DOMAIN documents :
    documents[k].embeddings # <<>>
      => Len(documents[k].chunks) = Len(documents[k].embeddings)

\* C11: every embedding stored by the upload route is made of the first
\* EmbedDim (768 in the source) components of the raw vector, so every stored
\* embedding of every document has length EmbedDim.  The source only cuts
\* (slice(0, 768)): a raw vector with fewer components, or an answer without
\* values, is stored shorter.
C11_StoredLengthIsEmbedDim ==
  \A k \in DOMAIN documents :
    \A i \in DOMAIN documents[k].embeddings :
      Len(documents[k].embeddings[i]) = EmbedDim

\* The upload answered 200 after the embedding service was called and
\* answered with vectors.
IsUpload == out.op = "upload"
UploadEmbedded ==
  IsUpload /\ out.status = 200 /\ out.req.embedCalled /\ out.req.resp.ok
RawVectors == out.req.resp.embeddings
TruncatedRaw(i) ==
  SubSeq(RawVectors[i], 1, IF Len(RawVectors[i]) < EmbedDim
                             THEN Len(RawVectors[i]) ELSE EmbedDim)
RawNormZero(i) ==
  /\ TruncatedRaw(i) # <<>>
  /\ SumSq(TruncatedRaw(i), Len(TruncatedRaw(i))) = 0

\* C12: when the Euclidean norm of a truncated raw embedding is exactly zero
\* the vector the upload produces for it is the all-zero vector: every
\* component is the number 0, none is NaN.  The source divides by the
\* magnitude with no test for zero, and 0 / 0 is NaN.
C12_ZeroNormStoredAsZero ==
  UploadEmbedded =>
    \A i \in DOMAIN RawVectors :
      RawNormZero(i) =>
        /\ i \in DOMAIN out.embeddings
        /\ \A j \in DOMAIN out.embeddings[i] : out.embeddings[i][j] = Num(0)

\* The upload passed validation and extraction, and its embedding step
\* failed: no session, no stored API key, or an error thrown by the service.
Extracted == IsUpload /\ RejectStatus(out.req.file) = 0
ExpectedChunks == FilterChunks(SplitText(CleanText(out.req.file.text)))
NoSessionFailure == out.req.session = NoSession
NoKeyFailure ==
  /\ out.req.session # NoSession
  /\ \A k \in DOMAIN users :
       users[k].email = out.req.session => users[k].geminiApiKey = NoKey
ServiceFailure == out.req.embedCalled /\ ~out.req.resp.ok
EmbeddingStepFailed ==
  Extracted /\ (NoSessionFailure \/ NoKeyFailure \/ ServiceFailure)

\* C13: a failure of the embedding step (no session, missing API key, or an
\* error thrown by the embedding service) does not abort the upload: the
\* answer has success = true, the chunks, an empty embeddings sequence
\* (embeddingCount = 0, hasEmbeddings = false) and a non-empty embeddingError.
C13_EmbeddingFailureIsDegradedSuccess ==
  EmbeddingStepFailed =>
    /\ out.status = 200
    /\ out.success
    /\ out.chunks = ExpectedChunks
    /\ out.chunkCount = Len(ExpectedChunks)
    /\ out.embeddings = <<>>
    /\ out.embeddingCount = 0
    /\ ~out.hasEmbeddings
    /\ out.embeddingError # ""

\* the service threw for a signed-in user with a key, and the document was
\* still saved, with its chunks and without embeddings
C13_Witness ==
  /\ Extracted
  /\ ServiceFailure
  /\ ~NoSessionFailure
  /\ ~NoKeyFailure
  /\ out.success
  /\ out.chunks # <<>>
  /\ out.documentId # 0

\* Steps of one upload request, read from the position of the handler.
EntersEmbedCall == up.pc = "idle" /\ up'.pc = "awaitEmbed"
EmbedCallReturns ==
  up.pc = "awaitEmbed" /\ up'.pc = "idle" /\ out'.op = "upload"
EmbedFailureCaught ==
  up.pc = "idle" /\ up'.pc = "idle" /\ out'.op = "upload"
    /\ out'.embeddingError # ""
EndsBeforeEmbedReturns ==
  up.pc = "awaitEmbed" /\ up'.pc = "idle" /\ out'.op = "abort"
Persists == Len(documents') > Len(documents)

ParseFailed == out.req.file.type \in {PdfType, DocxType} /\ ~out.req.file.parseOk
ExtractionFails ==
  /\ IsUpload
  /\ out.req.file.present
  /\ out.req.file.type \in allowedTypes
  /\ out.req.file.size <= maxSize
  /\ (ParseFailed \/ Len(Trim(out.req.file.text)) = 0)

\* C15: an extraction failure in an upload (PDF parse error, DOCX parse
\* error, or extracted text that is empty after trimming) aborts the upload:
\* the caller receives an error response, the embedding service is not
\* called, and no document is persisted.
C15_ExtractionFailureAborts ==
  [][ ExtractionFails' =>
        /\ out'.status = 400
        /\ ~out'.success
        /\ ~out'.req.embedCalled
        /\ out'.documentId = 0
        /\ documents' = documents
        /\ nextId' = nextId ]_vars

\* a PDF that cannot be parsed was refused while the store held a document
C15_Witness ==
  /\ ExtractionFails
  /\ ParseFailed
  /\ out.req.file.type = PdfType
  /\ out.status = 400
  /\ documents # <<>>

\* The document with a given id in the store after the step.
DocIdsAfter == {documents'[k].id : k \in DOMAIN documents'}
Created == {k \in DOMAIN documents' : documents'[k].id \notin DocIds}

\* C16: a Document is immutable after creation.  Every step (upload, search,
\* listing, deletion) leaves each document that stays in the store exactly
\* as it was; a document that appears is the one the upload just answered
\* for, it holds the uploader, chunks and embeddings of that upload, and its
\* id was never used before, neither by a stored nor by a deleted document.
C16_DocumentImmutable ==
  [][ /\ \A k \in DOMAIN documents' :
           documents'[k].id \in DocIds
             => documents'[k] = DocWithId(documents'[k].id)
      /\ \A k \in Created :
           /\ out'.op = "upload"
           /\ documents'[k].id = out'.documentId
           /\ documents'[k].id \notin deleted
           /\ documents'[k].id >= nextId
           /\ documents'[k].userId = out'.req.session
           /\ documents'[k].chunks = out'.chunks
           /\ documents'[k].embeddings = out'.embeddings
      /\ Cardinality(DocIdsAfter) = Len(documents') ]_vars

\* the same user uploaded the same file twice, with different answers of the
\* embedding service: two documents with different ids, the earlier one
\* still holding its own embeddings
C16_Witness ==
  /\ IsUpload
  /\ Len(documents) = 2
  /\ out.documentId = documents[2].id
  /\ documents[1].id # documents[2].id
  /\ documents[1].userId = documents[2].userId
  /\ documents[1].chunks = documents[2].chunks
  /\ documents[1].embeddings # documents[2].embeddings

\* C17: after deleteDocument(d, owner) has returned true, no later
\* searchSimilarDocuments or getUserDocuments call returns document d.
C17_DeletedNeverReturned ==
  /\ SearchOk =>
       \A i \in DOMAIN out.results : out.results[i].documentId \notin deleted
  /\ out.op = "list" =>
       \A i \in DOMAIN out.items : out.items[i].documentId \notin deleted

\* a document was deleted and a search of the same store still has results,
\* all from another document
C17_Witness ==
  /\ SearchOk
  /\ deleted # {}
  /\ out.results # <<>>
  /\ StoredFinite

\* The pieces of the splitter that are not blank, by position.
IsBlank(c) == Len(Trim(c)) = 0
NonBlankAt == {i \in DOMAIN out.split : ~IsBlank(out.split[i])}
NthNonBlank(j) ==
  CHOOSE i \in NonBlankAt : Cardinality({m \in NonBlankAt : m < i}) = j - 1

\* C18: the chunk sequence of an upload contains no chunk that is empty
\* after trimming, and the chunks that remain keep the order they have in
\* the document: the j-th chunk is the j-th non-blank piece of the splitter,
\* none is lost, and they are numbered without gaps.
C18_NoBlankChunkOrderKept ==
  out.op = "chunks" =>
    /\ \A j \in DOMAIN out.chunks : ~IsBlank(out.chunks[j])
    /\ DOMAIN out.chunks = 1..Cardinality(NonBlankAt)
    /\ \A j \in DOMAIN out.chunks : out.chunks[j] = out.split[NthNonBlank(j)]

\* two different pieces with a blank one between them: the blank one is
\* gone and the two follow each other in their order
C18_Witness ==
  /\ out.op = "chunks"
  /\ Len(out.split) = 3
  /\ ~IsBlank(out.split[1])
  /\ IsBlank(out.split[2])
  /\ ~IsBlank(out.split[3])
  /\ out.split[1] # out.split[3]
  /\ out.chunks = <<out.split[1], out.split[3]>>

\* The answers of the key routes and the session object, and the key values
\* that are secret: every stored key and the key of the request itself.
IsKeyAnswer == out.op \in {"keyPost", "keyGet", "keyDelete", "session"}
StoredKeys == {users[k].geminiApiKey : k \in DOMAIN users} \ {NoKey}
SecretKeys == StoredKeys \cup ({out.req.key} \ {NoKey})
StoredKeyOf(email) == findOne(users, email, TRUE).geminiApiKey

\* C21: the stored Gemini API key is a secret.  A read of a User record that
\* does not ask for the field ('+geminiApiKey') does not return it, and no
\* answer of the key routes (POST, GET, DELETE) and no session object holds
\* a key value in any field, only the booleans hasApiKey / hasGeminiApiKey.
C21_ApiKeyIsSecret ==
  /\ \A email \in Emails : findOne(users, email, FALSE).geminiApiKey = NoKey
  /\ IsKeyAnswer =>
       /\ \A f \in DOMAIN out.body : out.body[f] \notin SecretKeys
       /\ (out.op = "keyGet" /\ out.status = 200)
            => out.body.hasApiKey \in {Bool(TRUE), Bool(FALSE)}
       /\ out.op = "session"
            => out.body.hasGeminiApiKey \in {Bool(TRUE), Bool(FALSE)}

\* GET answered a user who has a key stored: hasApiKey is true and the key
\* is a secret value that the answer could have held
C21_Witness ==
  /\ out.op = "keyGet"
  /\ out.status = 200
  /\ StoredKeyOf(out.req.session) \in SecretKeys
  /\ out.body.hasApiKey = Bool(TRUE)

\* The stages at which an upload failed, read from the request and from what
\* the response shows of its course, and the stages the response names:
\* by the text of its error, or by its embeddingError field.
ValidationTexts ==
  { "No file provided",
    "Unsupported file type. Please upload PDF, TXT, or DOCX files.",
    "File size too large. Maximum size is 10MB." }
ExtractionTexts ==
  { "Failed to parse PDF file. Please ensure it contains readable text.",
    "Failed to parse DOCX file. Please ensure it contains readable text.",
    "No text content could be extracted from the file." }
SaveFailed ==
  out.status = 200 /\ out.req.session # NoSession /\ out.documentId = 0
FailedStages ==
  {st \in {"validation", "extraction", "embedding", "persistence"} :
     \/ st = "validation" /\ out.status = 400 /\ ~ExtractionFails
     \/ st = "extraction" /\ ExtractionFails
     \/ st = "embedding" /\ EmbeddingStepFailed
     \/ st = "persistence" /\ SaveFailed}
ReportedStages ==
  {st \in {"validation", "extraction", "embedding", "persistence"} :
     \/ st = "validation" /\ out.status # 200 /\ out.error \in ValidationTexts
     \/ st = "extraction" /\ out.status # 200 /\ out.error \in ExtractionTexts
     \/ st = "embedding" /\ out.status = 200 /\ out.embeddingError # ""}

\* C22: every failed upload reports which pipeline stage failed: an upload
\* that failed at some stage (validation, extraction, embedding,
\* persistence) answers with an identification of a stage.  A rejected
\* Document.create is caught and leaves no trace in the response.
C22_FailureReportsStage ==
  (IsUpload /\ FailedStages # {}) => ReportedStages # {}

\* A vector of numbers (no NaN component) that is not the zero vector, and
\* the vector of the negated components.
IsNonZeroVector(v) ==
  /\ \A i \in DOMAIN v : ~v[i].nan
  /\ \E i \in DOMAIN v : v[i].v # 0
Negated(v) == [i \in DOMAIN v |-> Num(0 - v[i].v)]

\* C23: for any non-zero vector v, cosineSimilarity(v, v) equals 1 and
\* cosineSimilarity(v, -v) equals -1 (in exact arithmetic: the dot product
\* squared equals the product of the squared norms, with positive sign for
\* v and negative sign for -v).
C23_SelfSimilarityIsOne ==
  (cos.done /\ IsNonZeroVector(cos.vecA)) =>
    /\ cos.vecB = cos.vecA
         => (~cos.r.err /\ SimEq(cos.r.val, SimOfTenths(10)))
    /\ cos.vecB = Negated(cos.vecA)
         => (~cos.r.err /\ SimEq(cos.r.val, SimOfTenths(-10)))

\* a vector of two different non-zero components was compared with its
\* negation and the result is -1
C23_Witness ==
  /\ cos.done
  /\ Len(cos.vecA) = 2
  /\ cos.vecA[1] = Num(-10)
  /\ cos.vecA[2] = Num(10)
  /\ cos.vecB = Negated(cos.vecA)
  /\ ~cos.r.err
  /\ cos.r.val.dot < 0

\* The list of ALL qualifying pairs of the searching user sorted by
\* similarity descending (pairs of equal similarity in scan order), built
\* from the rank of each pair, and its first n elements.
PairCos(c) == CandidateCos(out.queryEmbedding, c).val
AllQualifying == Qualifying(out.queryEmbedding, out.userId, out.similarityThreshold)
RankedBefore(c, d) ==
  \/ SimGt(PairCos(c), PairCos(d))
  \/ /\ SimEq(PairCos(c), PairCos(d))
     /\ (c[1] < d[1] \/ (c[1] = d[1] /\ c[2] < d[2]))
RankOf(c) == Cardinality({d \in AllQualifying : RankedBefore(d, c)}) + 1
RankedPair(n) == CHOOSE c \in AllQualifying : RankOf(c) = n
RankedResult(n) ==
  Result(documents[RankedPair(n)[1]], RankedPair(n)[2], PairCos(RankedPair(n)))
FirstOfRanked(n) ==
  [k \in 1..(IF n < 0 THEN 0
             ELSE IF n < Cardinality(AllQualifying) THEN n
             ELSE Cardinality(AllQualifying)) |-> RankedResult(k)]
NoMismatch == IsSearch /\ ~LengthMismatch(out.queryEmbedding, out.userId)
IsScenario ==
  /\ IsSearch
  /\ documents = ScenarioStore
  /\ out.queryEmbedding = Vec(<<10, 0>>)
  /\ out.userId = "alice"
  /\ out.similarityThreshold = 5
  /\ out.limit = 2

\* C24 as stated: when no length mismatch occurs the result of the search
\* equals the first limit elements of the sorted list of all qualifying
\* pairs, for every limit.
C24_SearchIsExact ==
  NoMismatch => (~out.err /\ out.results = FirstOfRanked(out.limit))

\* C24 amended: when no length mismatch occurs and limit >= 0 the result of
\* the search equals the first limit elements of the list of all qualifying
\* pairs of the user sorted by similarity descending; when at most limit
\* pairs qualify every one is returned; the scenario (query [1,0] against
\* [[1,0],[0,1],[0.9,0.1]], threshold 0.5, limit 2) gives chunk 0 then
\* chunk 2.
C24_SearchIsExactNonNegativeLimit ==
  /\ (NoMismatch /\ out.limit >= 0) =>
       /\ ~out.err
       /\ out.results = FirstOfRanked(out.limit)
       /\ Cardinality(AllQualifying) <= out.limit
            => Len(out.results) = Cardinality(AllQualifying)
  /\ IsScenario =>
       /\ Len(out.results) = 2
       /\ out.results[1].chunkIndex = 0
       /\ out.results[2].chunkIndex = 2

\* the scenario was run: three stored chunks, two of them qualify, and the
\* one of similarity 0 is left out
C24_Witness ==
  /\ IsScenario
  /\ ~out.err
  /\ Cardinality(AllQualifying) = 2
  /\ Cardinality(Candidates(out.userId)) = 3
  /\ out.results[1].chunkIndex = 0
  /\ out.results[2].chunkIndex = 2

C26_DocumentIdIffCreated ==
  [][ out'.op = "upload" =>
        /\ out'.documentId # 0 <=> Persists
        /\ out'.documentId # 0 =>
             /\ Len(documents') = Len(documents) + 1
             /\ SubSeq(documents', 1, Len(documents)) = documents
             /\ documents'[Len(documents')].id = out'.documentId
             /\ documents'[Len(documents')].userId = out'.req.session
             /\ out'.req.session # NoSession
        /\ out'.documentId = 0 => documents' = documents
        /\ RejectStatus(out'.req.file) = 0
             => (out'.success /\ out'.status = 200) ]_vars

\* a signed-in user's upload was embedded and its save was rejected: the
\* answer is a success without documentId and the store is empty
C26_Witness ==
  /\ IsUpload
  /\ out.req.session # NoSession
  /\ out.req.embedCalled
  /\ out.req.resp.ok
  /\ out.success
  /\ out.status = 200
  /\ out.documentId = 0
  /\ documents = <<>>

\* GET answered a user with a record; the user's last request that changed
\* the stored key.
GetAnswered == out.op = "keyGet" /\ out.status = 200
LastKeyRequest == keyLog[out.req.session]

\* C27: for a user with a record, GET reports hasApiKey = true exactly when
\* the user's most recent state-changing request was an authenticated POST
\* with a non-empty key, and false when it was a DELETE or when no key was
\* ever saved.  A key of white space only passes the test of the POST, is
\* trimmed to the empty string when stored, and GET then reports false.
C27_GetReflectsLastRequest ==
  GetAnswered =>
    (out.body.hasApiKey = Bool(TRUE)
       <=> (LastKeyRequest.op = "post" /\ LastKeyRequest.key # ""))

\* ---- C28
RecordsOf(store, email) == {k \in DOMAIN store : store[k].email = email}
OneRecordPerEmail(store) ==
  \A e \in Emails : Cardinality(RecordsOf(store, e)) <= 1
SameButLastActive(a, b) ==
  /\ a.email = b.email
  /\ a.geminiApiKey = b.geminiApiKey
SignInReturns(p) ==
  /\ signin.procs[p].pc = "found"
  /\ signin'.procs[p].pc = "done"
PostGoesOut == dialog.sent = NoPost /\ dialog'.sent # NoPost
BlankClick ==
  /\ dialog'.clicks # dialog.clicks
  /\ TrimKey(dialog.geminiApiKey) = ""
ValidationFails ==
  /\ dialog.pc = "validating"
  /\ dialog'.pc # "validating"
  /\ ~dialog'.validated.ok
AttemptFinishes == dialog.pc \in {"validating", "posting"} /\ dialog'.pc = "idle"
NothingSaved ==
  /\ dialog'.sent = NoPost
  /\ dialog'.pc = "idle"
  /\ dialog'.saveStatus = "error"
  /\ dialog'.hasApiKey = dialog.hasApiKey
\* C29: handleSaveApiKey sends the POST only in the step where
\* validateGeminiApiKey returned true, and with the very key that was
\* validated (the trimmed input the handler was started with); on a blank
\* key or a failed validation no POST goes out, saveStatus becomes "error"
\* and hasApiKey keeps its value; whenever a started attempt finishes, and
\* whenever no attempt runs, isSaving and isValidating are false.
C29_PostOnlyAfterValidation ==
  [][ /\ PostGoesOut =>
           /\ dialog.pc = "validating"
           /\ dialog'.validated = [key |-> dialog'.sent, ok |-> TRUE]
           /\ dialog'.sent = TrimKey(dialog.closure)
           /\ dialog'.sent # ""
      /\ BlankClick => NothingSaved
      /\ ValidationFails => NothingSaved
      /\ AttemptFinishes => ~dialog'.isSaving /\ ~dialog'.isValidating
      /\ dialog'.pc = "idle" =>
           ~dialog'.isSaving /\ ~dialog'.isValidating /\ dialog'.sent = NoPost
    ]_vars
\* the POST of a validated key is in flight, the key being the trimmed form
\* of what was typed, while the input has been edited since
C29_Witness ==
  /\ dialog.pc = "posting"
  /\ dialog.closure = " k1"
  /\ dialog.sent = "k1"
  /\ dialog.geminiApiKey = " "
  /\ dialog.validated.ok
  /\ dialog.isSaving

\* ---- C30
TenMegabytes == 10 * 1024 * 1024
NamedTypes ==
  { "application/pdf", "text/plain",
    "application/vnd.openxmlformats-officedocument.wordprocessingml.document" }
InvalidFile(file) ==
  \/ ~file.present
  \/ file.type \notin NamedTypes
  \/ file.size > TenMegabytes
OnTheLimit(file) ==
  /\ file.present
  /\ file.type \in NamedTypes
  /\ file.size = TenMegabytes
====
